---------------------------- MODULE Spec2Model ----------------------------
(***************************************************************************)
(* A model of the example programs of me-learning-opengl:                  *)
(*   - with_window (src/lib.rs), the poll-based bootstrap that drives a    *)
(*     RenderHandler (hello_triangle, shaders_01, 05_textures_01);         *)
(*   - the two framebuffer examples, which inline the same loop;           *)
(*   - 00_hello_window, the callback-based glutin loop;                    *)
(*   - SliceAsBytes::as_mem_bytes, the byte-view adapter.                  *)
(*                                                                         *)
(* Environment.  What the driver answers where the code inspects the      *)
(* answer (compile status, link status, uniform lookup, image decoding,    *)
(* framebuffer status, error code) is nondeterministic, and so is the     *)
(* stream of window events.  Every call whose Result the code unwraps     *)
(* (set-up, create_*, unbind, present, bind, swap_buffers, destroy) may    *)
(* return Err, and the run then panics with what had been done so far.     *)
(***************************************************************************)
EXTENDS Integers, Sequences, FiniteSets, TLC

VARIABLES
    prog,          \* the example binary that is running
    pc,            \* position of the program
    ctxCreated,    \* rendering contexts created so far
    ctxDestroys,   \* per context, the destroy_context calls that returned Ok
    current,       \* the context made current ("none" before any)
    surfaceBound,  \* the contexts that have a window surface bound to them
    exit,          \* the poll loops' exit flag / ControlFlow::Exit reached
    exitCode,      \* process exit status, NotExited while running
    initCalls,     \* calls of RenderHandler::init
    initReturned,  \* init has returned its handler
    initLog,       \* GL steps init has executed, in order
    drawCalls,     \* frames drawn (RenderHandler::draw calls, inline frames)
    presentCalls,  \* present_surface / swap_buffers calls that returned Ok
    exitCalls,     \* calls of RenderHandler::exit
    frames,        \* loop iterations begun (poll loops)
    frameLog,      \* GL steps of the current inline frame (framebuffer examples)
    batchCount,    \* events handled in the current poll batch / in total (hello_window)
    lastEvent,     \* the event most recently handed to the loop's handler
    resizeEvents,  \* physical sizes of the Resized events delivered, in order
    reconfigCalls, \* sizes passed to a surface/viewport resize call, in order
    redrawReqs,    \* redraw requests delivered (Refresh / RedrawRequested)
    firstFault,    \* the first step at which the driver answered a failure ("none")
    lastError,     \* the code the last get_error returned, and how it was decoded
    frameCtx,      \* per step of frameLog, the context that was current at it
    gl,            \* GL state of a scene: uniforms, texture units, index buffer, draw calls
    pollCalls,     \* calls of poll_events (event batches begun)
    objects,       \* framebuffer and renderbuffer objects created and not deleted
    bound,         \* per context, the framebuffers bound to DRAW_ and READ_FRAMEBUFFER
    frameBound,    \* per step of frameLog, the bindings of its context when it ran
    failedCall,    \* the device call of the loop or teardown that failed ("none")
    bv             \* the byte-view harness: input and result of as_mem_bytes

vars == <<prog, pc, ctxCreated, ctxDestroys, current, surfaceBound, exit,
          exitCode, initCalls, initReturned, initLog, drawCalls, presentCalls,
          exitCalls, frames, frameLog, batchCount, lastEvent, resizeEvents,
          reconfigCalls, redrawReqs, firstFault, lastError, frameCtx, frameBound, gl, pollCalls, objects, bound,
          failedCall, bv>>

\* the bookkeeping that most steps leave alone
glVars == <<lastError, frameCtx, frameBound, gl, pollCalls, objects, bound>>

(***************************************************************************)
(* Bounds of the model.                                                    *)
(***************************************************************************)
MaxFrames == 3
MaxBatch == 2
MaxEvents == 4
MaxResizes == 2
MaxRedrawReqs == 2
MaxLen == 2
MaxCodeOffset == 15

(***************************************************************************)
(* Program constants.                                                      *)
(***************************************************************************)
NotExited == -1
ExitSuccess == 0
ExitFailure == 1
PanicStatus == 101

Scenes == {"hello_triangle", "shaders_01", "textures_01"}
FbProgs == {"framebuffers_01", "framebuffers_02"}
PollProgs == Scenes \cup FbProgs
Programs == PollProgs \cup {"hello_window"}


(***************************************************************************)
(* Window events.  An event is a record of its kind, the virtual key code  *)
(* of a key event and the physical size of a resize event.                 *)
(***************************************************************************)
NoKey == "-"
NoSize == <<0, 0>>
Keys == {"Escape", "A", "None"}
Sizes == {<<640, 480>>, <<1024, 768>>}

Ev(kind, key, size) == [kind |-> kind, key |-> key, size |-> size]
NoEvent == Ev("none", NoKey, NoSize)

\* What winit's EventsLoop::poll_events may hand to the closure of a poll loop.
PollEventSet ==
    {Ev("WindowDestroyed", NoKey, NoSize), Ev("WindowCloseRequested", NoKey, NoSize),
     Ev("WindowRefresh", NoKey, NoSize), Ev("Other", NoKey, NoSize)}
    \cup {Ev("DeviceKey", k, NoSize) : k \in Keys}
    \cup {Ev("WindowKeyboardInput", "Escape", NoSize)}
    \cup {Ev("WindowResized", NoKey, s) : s \in Sizes}

\* What glutin's EventLoop::run may hand to the closure of 00_hello_window
\* before LoopDestroyed.
HelloEventSet ==
    {Ev("MainEventsCleared", NoKey, NoSize), Ev("RedrawRequested", NoKey, NoSize),
     Ev("WindowCloseRequested", NoKey, NoSize), Ev("WindowDestroyed", NoKey, NoSize),
     Ev("DeviceKey", "Escape", NoSize), Ev("Other", NoKey, NoSize)}
    \cup {Ev("WindowKeyboardInput", k, NoSize) : k \in Keys}
    \cup {Ev("WindowResized", NoKey, s) : s \in Sizes}

IsResize(e) == e.kind = "WindowResized"
IsRedrawRequest(e) == e.kind \in {"WindowRefresh", "RedrawRequested"}

(***************************************************************************)
(* The closure given to poll_events (with_window; the framebuffer examples *)
(* hold the same closure): the new value of the exit flag.                 *)
(***************************************************************************)
MatchesExit(event) ==
    \/ event.kind = "WindowDestroyed"
    \/ event.kind = "WindowCloseRequested"
    \/ event.kind = "DeviceKey" /\ event.key = "Escape"

\* a closure whose flag follows the last event handled
PollHandlerFollowsLast(event, ex) == MatchesExit(event)

PollHandler(event, ex) == IF MatchesExit(event) THEN TRUE ELSE ex

\* The resize calls the closure of a poll loop makes for an event: none.
PollHandlerResizes(event) == <<>>

(***************************************************************************)
(* The closure given to EventLoop::run by 00_hello_window: the control     *)
(* flow it leaves, and the draw, swap and resize calls it makes.           *)
(***************************************************************************)
HelloHandlerFlow(event) ==
    LET cf0 == "Wait"
    IN  CASE event.kind = "LoopDestroyed" -> cf0
          [] event.kind = "WindowKeyboardInput" ->
                IF event.key # "None" /\ event.key = "Escape" THEN "Exit" ELSE cf0
          [] event.kind = "WindowCloseRequested" -> "Exit"
          [] OTHER -> cf0

HelloHandlerDraws(event) == IF event.kind = "RedrawRequested" THEN 1 ELSE 0

HelloHandlerSwaps(event) == IF event.kind = "RedrawRequested" THEN 1 ELSE 0

HelloHandlerResizes(event) ==
    IF event.kind = "WindowResized" THEN <<event.size>> ELSE <<>>

\* winit keeps ControlFlow::Exit once a callback has set it: the assignment
\* of Wait at the top of a later callback does not undo it.
StickyExit(reached, flow) == reached \/ flow = "Exit"

(***************************************************************************)
(* RenderHandler::init of the three scenes, as the GL steps it executes    *)
(* in order.                                                                *)
(***************************************************************************)
ShaderSteps ==
    <<"create_vs", "source_vs", "compile_vs", "check_vs",
      "create_fs", "source_fs", "compile_fs", "check_fs",
      "create_program", "attach_vs", "attach_fs", "link_program", "check_link">>

TimeUniformSteps == <<"get_uniform_location_time", "use_program", "uniform_time">>

HelloTriangleInit ==
    ShaderSteps \o
    <<"delete_vs", "delete_fs",
      "create_vao", "create_vbo", "bind_vao", "bind_vbo", "buffer_data_vbo",
      "vertex_attrib_pointer_0", "enable_vertex_attrib_0">>

Shaders01Init ==
    ShaderSteps \o TimeUniformSteps \o
    <<"delete_vs", "delete_fs",
      "create_vao", "create_vbo", "bind_vao", "bind_vbo", "buffer_data_vbo",
      "create_ebo", "bind_ebo", "buffer_data_ebo",
      "vertex_attrib_pointer_0", "enable_vertex_attrib_0">>

Textures01Init ==
    ShaderSteps \o TimeUniformSteps \o
    <<"delete_vs", "delete_fs",
      "create_vao", "create_vbo", "bind_vao", "bind_vbo", "buffer_data_vbo",
      "create_ebo", "bind_ebo", "buffer_data_ebo",
      "vertex_attrib_pointer_0", "vertex_attrib_pointer_1", "vertex_attrib_pointer_2",
      "enable_vertex_attrib_0", "enable_vertex_attrib_1", "enable_vertex_attrib_2",
      "load_texture_0", "load_texture_1">>

InitScript(p) ==
    CASE p = "hello_triangle" -> HelloTriangleInit
      [] p = "shaders_01" -> Shaders01Init
      [] p = "textures_01" -> Textures01Init
      [] OTHER -> <<>>

(***************************************************************************)
(* The inline frame of the two framebuffer examples, as its GL steps.      *)
(***************************************************************************)
Framebuffers01Frame ==
    <<"create_fbo", "bind_draw_fbo", "create_rbo", "bind_rbo", "renderbuffer_storage",
      "attach_rbo_draw", "check_status_draw", "clear_color", "clear",
      "bind_draw_default", "create_fbo2", "bind_read_fbo2", "attach_rbo_read",
      "blit", "get_error">>

Framebuffers02Frame ==
    <<"create_swapchain_fbo", "bind_draw_swapchain_fbo", "create_rbo", "bind_rbo",
      "renderbuffer_storage", "attach_rbo_draw", "check_status_draw",
      "clear_color", "clear",
      "make_surface_context_current",
      "create_surface_tmp_fbo", "bind_read_surface_tmp_fbo", "attach_rbo_read",
      "check_status_draw_again", "bind_draw_default", "blit",
      "delete_surface_tmp_fbo", "delete_swapchain_fbo", "get_error">>

FrameScript(p) ==
    CASE p = "framebuffers_01" -> Framebuffers01Frame
      [] p = "framebuffers_02" -> Framebuffers02Frame
      [] OTHER -> <<>>

(***************************************************************************)
(* What the driver may answer at a step whose answer the code inspects,    *)
(* and what the code does with the answer: "ok" (go on), "exit1"           *)
(* (std::process::exit(1)) or "panic".                                     *)
(***************************************************************************)
NO_ERROR == 0
INVALID_ENUM == 1280
INVALID_VALUE == 1281
INVALID_OPERATION == 1282
OUT_OF_MEMORY == 1285
INVALID_FRAMEBUFFER_OPERATION == 1286
FRAMEBUFFER_COMPLETE == 36053
FRAMEBUFFER_INCOMPLETE_ATTACHMENT == 36054
FRAMEBUFFER_UNSUPPORTED == 36061

\* the uniform names the scenes look up
SamplerNames == {"imageTexture1", "imageTexture2"}
UniformNames == {"time"} \cup SamplerNames

FbStatuses == {FRAMEBUFFER_COMPLETE, FRAMEBUFFER_INCOMPLETE_ATTACHMENT,
               FRAMEBUFFER_UNSUPPORTED, 0}
ErrorCodes == {NO_ERROR, INVALID_OPERATION, INVALID_FRAMEBUFFER_OPERATION}
\* what load_and_bind_texture may meet: a decoded image of some pixel format,
\* an image that cannot be opened, or a decoded image and a create_texture
\* that returns Err
ImageKinds == {"ImageRgb8", "ImageRgba8", "ImageLuma8", "open_failed",
               "create_texture_failed"}

\* the steps that unwrap the Result of a create_* call or of the in-frame
\* make_context_current
UnwrapSteps ==
    {"create_vs", "create_fs", "create_program", "create_vao", "create_vbo",
     "create_ebo", "create_fbo", "create_fbo2", "create_rbo",
     "create_swapchain_fbo", "create_surface_tmp_fbo",
     "make_surface_context_current"}

(***************************************************************************)
(* SliceAsBytes::as_mem_bytes.  The receiver is a container T with         *)
(* T: AsRef<[U]>; the view starts at the first element and its length is   *)
(* size_of::<T>() * len.  Bytes are little-endian.                         *)
(***************************************************************************)
Containers == {"slice_ref", "vec", "array"}
ElemSizes == {1, 2, 4, 8}
PtrWidths == {4, 8}
ElemValues == {1, 258}
\* the values a byte read past the end of the sequence may have: any byte
GarbageBytes == 0..255

RECURSIVE ByteAt(_, _)
\* byte i (from 1, least significant first) of the value v
ByteAt(v, i) == IF i = 1 THEN v % 256 ELSE ByteAt(v \div 256, i - 1)

\* the in-memory bytes of one element of `size` bytes holding v
ElemBytes(v, size) == [i \in 1..size |-> ByteAt(v, i)]

RECURSIVE MemRep(_, _)
\* the in-memory representation of a sequence of elements
MemRep(elems, size) ==
    IF elems = <<>> THEN <<>>
    ELSE ElemBytes(Head(elems), size) \o MemRep(Tail(elems), size)

\* std::mem::size_of::<T>() of the container: a slice reference is a fat
\* pointer, a Vec is pointer, capacity and length, an array is its elements
SizeOfContainer(container, elemSize, n, ptrWidth) ==
    CASE container = "slice_ref" -> 2 * ptrWidth
      [] container = "vec" -> 3 * ptrWidth
      [] container = "array" -> n * elemSize

AsMemBytesLen(container, elemSize, n, ptrWidth) ==
    SizeOfContainer(container, elemSize, n, ptrWidth) * n

\* from_raw_parts(ptr, len) read back, each byte as the set of values it may
\* have: inside the sequence the byte of the representation; past its end
\* whatever lies behind it, every byte on its own
AsMemBytes(container, elemSize, elems, ptrWidth) ==
    LET rep == MemRep(elems, elemSize)
        len == AsMemBytesLen(container, elemSize, Len(elems), ptrWidth)
    IN  [i \in 1..len |-> IF i <= Len(rep) THEN {rep[i]} ELSE GarbageBytes]

BvIdle == [phase |-> "idle"]

BvInputs ==
    {[phase |-> "input", container |-> c, elemSize |-> s, ptrWidth |-> w, elems |-> e] :
        c \in Containers, s \in ElemSizes, w \in PtrWidths,
        e \in UNION {[1..k -> ElemValues] : k \in 0..MaxLen}}

\* what the environment decides at a step: the driver's answer, or, where a
\* buffer is uploaded through as_mem_bytes, the pointer width of the build
DriverAnswers(step) ==
    CASE step \in {"check_vs", "check_fs", "check_link"} -> BOOLEAN
      [] step = "link_program" -> SUBSET UniformNames
      [] step = "get_uniform_location_time" -> BOOLEAN
      [] step \in {"load_texture_0", "load_texture_1"} -> ImageKinds
      [] step \in {"check_status_draw", "check_status_draw_again"} -> FbStatuses
      [] step = "get_error" -> ErrorCodes
      [] step \in {"buffer_data_vbo", "buffer_data_ebo"} -> PtrWidths
      [] step \in UnwrapSteps -> BOOLEAN
      [] OTHER -> {TRUE}

\* !x on a u32, as its high and low 16-bit halves
BitNot32(x) == <<65535 - (x \div 65536), 65535 - (x % 65536)>>

Halves32(x) == <<x \div 65536, x % 65536>>

\* HandleShaderCompileErrors that prints the log and goes on
HandleShaderCompileErrorsNoExit(status) == "ok"

\* HandleProgramLinkErrors that prints the log and goes on
HandleProgramLinkErrorsNoExit(status) == "ok"

\* from_error_code without the arms of INVALID_VALUE and OUT_OF_MEMORY
FromErrorCodeFewerArms(ecode) ==
    CASE ecode = NO_ERROR -> "NoError"
      [] ecode = INVALID_ENUM -> "InvalidEnum"
      [] ecode = INVALID_OPERATION -> "InvalidOperation"
      [] ecode = INVALID_FRAMEBUFFER_OPERATION -> "InvalidFramebufferOperation"
      [] OTHER -> "UnknownError"

\* Error::from_error_code
FromErrorCode(ecode) ==
    CASE ecode = NO_ERROR -> "NoError"
      [] ecode = INVALID_ENUM -> "InvalidEnum"
      [] ecode = INVALID_VALUE -> "InvalidValue"
      [] ecode = INVALID_OPERATION -> "InvalidOperation"
      [] ecode = INVALID_FRAMEBUFFER_OPERATION -> "InvalidFramebufferOperation"
      [] ecode = OUT_OF_MEMORY -> "OutOfMemory"
      [] OTHER -> "UnknownError"

\* the test of the error code that lets every code pass
HandleErrorCodeIgnored(ecode) == "ok"

\* let ecode = gl.get_error(); if ecode != glow::NO_ERROR { panic!(..) }
HandleErrorCode(ecode) == IF ecode # NO_ERROR THEN "panic" ELSE "ok"

\* what the get_error step leaves behind: the code, and the variant the panic
\* message was built from ("-" when no message was built)
ErrorSeen(ecode) ==
    [code |-> ecode,
     decoded |-> IF HandleErrorCode(ecode) = "panic" THEN FromErrorCode(ecode) ELSE "-"]

\* handle_shader_compile_errors
HandleShaderCompileErrors(status) == IF ~status THEN "exit1" ELSE "ok"

\* handle_program_link_errors
HandleProgramLinkErrors(status) == IF ~status THEN "exit1" ELSE "ok"

StepResult(step, ans) ==
    CASE step \in {"check_vs", "check_fs"} -> HandleShaderCompileErrors(ans)
      [] step = "check_link" -> HandleProgramLinkErrors(ans)
      [] step = "get_uniform_location_time" -> IF ans THEN "ok" ELSE "panic"
      [] step \in {"load_texture_0", "load_texture_1"} ->
            IF ans \in {"ImageRgb8", "ImageRgba8"} THEN "ok" ELSE "panic"
      [] step \in {"check_status_draw", "check_status_draw_again"} ->
            IF BitNot32(ans) = Halves32(FRAMEBUFFER_COMPLETE) THEN "panic" ELSE "ok"
      [] step = "get_error" -> HandleErrorCode(ans)
      [] step \in UnwrapSteps -> IF ans THEN "ok" ELSE "panic"
      [] OTHER -> "ok"

ResultCode(r) == IF r = "exit1" THEN ExitFailure ELSE PanicStatus

\* whether the driver's answer at a step reports a failure
AnswerIsFailure(step, ans) ==
    CASE step \in {"check_vs", "check_fs", "check_link"} -> ans = FALSE
      [] step = "get_uniform_location_time" -> ans = FALSE
      [] step \in {"load_texture_0", "load_texture_1"} ->
            ans \notin {"ImageRgb8", "ImageRgba8"}
      [] step \in {"check_status_draw", "check_status_draw_again"} ->
            ans # FRAMEBUFFER_COMPLETE
      [] step = "get_error" -> ans # NO_ERROR
      [] step \in UnwrapSteps -> ans = FALSE
      [] OTHER -> FALSE

NoteFault(fault, step, ans) ==
    IF fault = "none" /\ AnswerIsFailure(step, ans) THEN step ELSE fault

(***************************************************************************)
(* The contexts of each program.                                           *)
(***************************************************************************)
CtxNames == {"context", "root_context", "surface_context", "windowed_context"}

\* contexts in the order the set-up creates them
CreatedBy(p) ==
    CASE p \in Scenes \cup {"framebuffers_01"} -> <<"context">>
      [] p = "framebuffers_02" -> <<"root_context", "surface_context">>
      [] p = "hello_window" -> <<"windowed_context">>

\* the context the window surface is bound to
SurfaceCtx(p) ==
    CASE p \in Scenes \cup {"framebuffers_01"} -> "context"
      [] p = "framebuffers_02" -> "surface_context"
      [] p = "hello_window" -> "windowed_context"

\* set-up that creates and binds a window surface for every context it created
SetupBindsEveryContext(p) == {CreatedBy(p)[i] : i \in DOMAIN CreatedBy(p)}

\* the contexts set-up binds the window surface to: one create_surface, one
\* bind_surface_to_context
SetupBinds(p) == {SurfaceCtx(p)}

\* the context made current before the loop
FirstCurrent(p) ==
    CASE p \in Scenes \cup {"framebuffers_01"} -> "context"
      [] p = "framebuffers_02" -> "root_context"
      [] p = "hello_window" -> "windowed_context"

Range(f) == {f[i] : i \in DOMAIN f}

\* the fallible calls of the set-up (each one unwrapped), in source order
SetupCalls(p) ==
    CASE p \in Scenes \cup {"framebuffers_01"} ->
             <<"build_window", "from_winit_window", "create_native_widget",
               "create_hardware_adapter", "create_device",
               "create_context_descriptor", "create_context", "create_surface",
               "bind_surface_to_context", "make_context_current">>
      [] p = "framebuffers_02" ->
             <<"build_window", "from_winit_window", "create_native_widget",
               "create_hardware_adapter", "create_device",
               "create_context_descriptor", "create_context", "create_context",
               "create_surface", "bind_surface_to_context",
               "make_context_current">>
      [] p = "hello_window" -> <<"build_windowed", "make_current">>

\* how many of the first k set-up calls satisfy the test
RECURSIVE CountCalls(_, _, _)
CountCalls(calls, k, names) ==
    IF k = 0 THEN 0
    ELSE CountCalls(calls, k - 1, names) + (IF calls[k] \in names THEN 1 ELSE 0)

\* contexts that exist once the first k set-up calls have returned
CreatedAfter(p, k) ==
    Range(SubSeq(CreatedBy(p), 1,
                 CountCalls(SetupCalls(p), k, {"create_context", "build_windowed"})))

\* contexts holding the window surface once the first k calls have returned
BoundAfter(p, k) ==
    IF CountCalls(SetupCalls(p), k, {"bind_surface_to_context", "build_windowed"}) > 0
    THEN SetupBinds(p) ELSE {}

\* the current context once the first k set-up calls have returned
CurrentAfter(p, k) ==
    IF CountCalls(SetupCalls(p), k, {"make_context_current", "make_current"}) > 0
    THEN FirstCurrent(p) ELSE "none"

\* TeardownOrder that forgets the root context of 06_framebuffers_02
TeardownOrderSurfaceOnly(p) ==
    CASE p \in Scenes \cup {"framebuffers_01"} -> <<"context">>
      [] p = "framebuffers_02" -> <<"surface_context">>
      [] p = "hello_window" -> <<>>

\* destroy_context calls after the loop, in order
TeardownOrder(p) ==
    CASE p \in Scenes \cup {"framebuffers_01"} -> <<"context">>
      [] p = "framebuffers_02" -> <<"surface_context", "root_context">>
      [] p = "hello_window" -> <<>>

DestroyCalls ==
    ctxDestroys["context"] + ctxDestroys["root_context"]
    + ctxDestroys["surface_context"] + ctxDestroys["windowed_context"]

(***************************************************************************)
(* GL state of a scene.  Linking fixes the program's active uniforms (the  *)
(* shader sources are outside src/, so which of the names the scene looks  *)
(* up are active is the driver's answer); a sampler uniform that exists    *)
(* starts at 0.  Texture units are 0 and 1, kept at positions 1 and 2.     *)
(***************************************************************************)
TRI_VERTICE_INDEXES == <<0, 1, 2, 0, 2, 3>>

\* number of vertices in TRI_VERTICES: its floats over the floats per vertex
VertexCount(p) ==
    CASE p = "hello_triangle" -> 9 \div 3
      [] p = "shaders_01" -> 12 \div 3
      [] p = "textures_01" -> 36 \div 9
      [] OTHER -> 0

\* the uniform names a scene looks up
LookedUpUniforms(p) ==
    CASE p = "shaders_01" -> {"time"}
      [] p = "textures_01" -> {"time"} \cup SamplerNames
      [] OTHER -> {}

GlIdle ==
    [uniforms |-> {},
     samplers |-> [n \in {} |-> 0],
     activeUnit |-> 0,
     units |-> <<"none", "none">>,
     texParams |-> [t \in {} |-> <<>>],
     ptrWidth |-> 0,
     ebo |-> [bytes |-> 0, len |-> 0, arrayLen |-> 0, elemType |-> "none"],
     draws |-> <<>>,
     skipped |-> 0,
     vbo |-> [bytes |-> 0, floats |-> 0, arrayFloats |-> 0],
     attribs |-> [k \in {} |-> 0]]

\* the GL enum of the index type that matches a Rust element type
GlTypeOf(elemType) ==
    CASE elemType = "u32" -> "UNSIGNED_INT"
      [] elemType = "u16" -> "UNSIGNED_SHORT"
      [] elemType = "u8" -> "UNSIGNED_BYTE"
      [] OTHER -> "none"

\* load_and_bind_texture(gl, unit, path), given what the image decoded to
LoadAndBindTexture(st, unit, tex, kind) ==
    IF kind \in {"ImageRgb8", "ImageRgba8"}
    THEN [st EXCEPT !.activeUnit = unit,
                    !.units[unit + 1] = tex,
                    !.texParams = (tex :> [wrap_s |-> "REPEAT", wrap_t |-> "REPEAT",
                                           min_filter |-> "LINEAR",
                                           mag_filter |-> "LINEAR"]) @@ @]
    ELSE [st EXCEPT !.activeUnit = unit]

\* std::mem::size_of::<u32>()
SizeOfU32 == 4

\* what a step of init does to the GL state: the element buffer gets
\* TRI_VERTICE_INDEXES.as_mem_bytes(), size_of::<&[u32]>() * len bytes
ApplyInitStep(st, step, ans) ==
    CASE step = "link_program" ->
            [st EXCEPT !.uniforms = ans,
                       !.samplers = [n \in ans \cap SamplerNames |-> 0]]
      [] step = "buffer_data_ebo" ->
            LET n == Len(TRI_VERTICE_INDEXES)
                bytes == AsMemBytesLen("slice_ref", SizeOfU32, n, ans)
            IN  [st EXCEPT !.ptrWidth = ans,
                           !.ebo = [bytes |-> bytes, len |-> bytes \div SizeOfU32,
                                    arrayLen |-> n, elemType |-> "u32"]]
      [] step = "load_texture_0" -> LoadAndBindTexture(st, 0, "texture0", ans)
      [] step = "load_texture_1" -> LoadAndBindTexture(st, 1, "texture1", ans)
      [] OTHER -> st

\* std::mem::size_of::<f32>()
SizeOfF32 == 4

\* number of floats in TRI_VERTICES
VertexFloats(p) ==
    CASE p = "hello_triangle" -> 9
      [] p = "shaders_01" -> 12
      [] p = "textures_01" -> 36
      [] OTHER -> 0

\* one vertex_attrib_pointer_f32(index, size, data_type, normalized, stride, offset)
Attrib(size, stride, offset) ==
    [size |-> size, type |-> "FLOAT", stride |-> stride, offset |-> offset]

\* the attribute pointers of 05_textures_01 with the texture coordinates
\* declared one float early
AttribPointersOverlapping(p) ==
    IF p = "textures_01"
    THEN (0 :> Attrib(3, 9 * SizeOfF32, 0)) @@
         (1 :> Attrib(4, 9 * SizeOfF32, 3 * SizeOfF32)) @@
         (2 :> Attrib(2, 9 * SizeOfF32, 6 * SizeOfF32))
    ELSE (0 :> Attrib(3, 3 * SizeOfF32, 0))

\* the vertex_attrib_pointer_f32 calls of a scene's init, by attribute index
AttribPointers(p) ==
    IF p = "textures_01"
    THEN (0 :> Attrib(3, 9 * SizeOfF32, 0)) @@
         (1 :> Attrib(4, 9 * SizeOfF32, 3 * SizeOfF32)) @@
         (2 :> Attrib(2, 9 * SizeOfF32, 7 * SizeOfF32))
    ELSE (0 :> Attrib(3, 3 * SizeOfF32, 0))

\* the attribute index a step of init declares
SlotOf(step) ==
    CASE step = "vertex_attrib_pointer_0" -> 0
      [] step = "vertex_attrib_pointer_1" -> 1
      [] step = "vertex_attrib_pointer_2" -> 2

\* what the vertex upload and the attribute declarations of init leave in the
\* GL state: the vertex buffer gets TRI_VERTICES.as_mem_bytes(),
\* size_of::<&[f32]>() * len bytes
ApplyVertexStep(st, p, step, ans) ==
    CASE step = "buffer_data_vbo" ->
            LET bytes == AsMemBytesLen("slice_ref", SizeOfF32, VertexFloats(p), ans)
            IN  [st EXCEPT !.ptrWidth = ans,
                           !.vbo = [bytes |-> bytes, floats |-> bytes \div SizeOfF32,
                                    arrayFloats |-> VertexFloats(p)]]
      [] step \in {"vertex_attrib_pointer_0", "vertex_attrib_pointer_1",
                   "vertex_attrib_pointer_2"} ->
            [st EXCEPT !.attribs = (SlotOf(step) :> AttribPointers(p)[SlotOf(step)]) @@ @]
      [] OTHER -> st

\* whether the driver can give this answer at this step
AnswerPossible(st, p, step, ans) ==
    CASE step = "link_program" -> ans \subseteq LookedUpUniforms(p)
      [] step = "get_uniform_location_time" -> ans = ("time" \in st.uniforms)
      [] step \in {"buffer_data_vbo", "buffer_data_ebo"} ->
            st.ptrWidth = 0 \/ ans = st.ptrWidth
      [] OTHER -> TRUE

\* a GL call of a draw handler
Call(op, name, val) == [op |-> op, name |-> name, val |-> val]

\* an indexed draw call that reads half of the index array
DrawElementsCallOfThree == Call("draw_elements", "UNSIGNED_INT", 3)

\* gl.draw_elements(glow::TRIANGLES, 6, glow::UNSIGNED_INT, 0)
DrawElementsCall == Call("draw_elements", "UNSIGNED_INT", 6)

HelloTriangleDraw ==
    <<Call("clear_color", "", 0), Call("clear", "", 0), Call("use_program", "", 0),
      Call("bind_vertex_array", "", 0), Call("draw_arrays", "", 3)>>

Shaders01Draw ==
    <<Call("clear_color", "", 0), Call("clear", "", 0), Call("use_program", "", 0),
      Call("uniform_1_f32", "time", 0),
      Call("bind_vertex_array", "", 0), DrawElementsCall>>

Textures01Draw ==
    <<Call("clear_color", "", 0), Call("clear", "", 0), Call("use_program", "", 0),
      Call("uniform_1_f32", "time", 0),
      Call("active_texture", "", 0), Call("bind_texture", "texture0", 0),
      Call("active_texture", "", 1), Call("bind_texture", "texture1", 0),
      Call("uniform_1_i32", "imageTexture1", 0),
      Call("uniform_1_i32", "imageTexture2", 1),
      Call("bind_vertex_array", "", 0), DrawElementsCall>>

DrawScript(p) ==
    CASE p = "hello_triangle" -> HelloTriangleDraw
      [] p = "shaders_01" -> Shaders01Draw
      [] p = "textures_01" -> Textures01Draw
      [] OTHER -> <<>>

\* gl.get_uniform_location(program, name): Some(location) or None
GetUniformLocation(st, name) == IF name \in st.uniforms THEN <<name>> ELSE <<>>

\* gl.uniform_1_i32(location, x): writes when the location is Some, does
\* nothing when it is None
Uniform1I32(st, location, x) ==
    IF location # <<>>
    THEN [st EXCEPT !.samplers = (location[1] :> x) @@ @]
    ELSE [st EXCEPT !.skipped = @ + 1]

ApplyCall(st, c) ==
    CASE c.op = "active_texture" -> [st EXCEPT !.activeUnit = c.val]
      [] c.op = "bind_texture" -> [st EXCEPT !.units[st.activeUnit + 1] = c.name]
      [] c.op = "uniform_1_i32" ->
            Uniform1I32(st, GetUniformLocation(st, c.name), c.val)
      [] c.op \in {"draw_elements", "draw_arrays"} ->
            [st EXCEPT !.draws = Append(@, [op |-> c.op, count |-> c.val,
                                            type |-> c.name, units |-> st.units,
                                            samplers |-> st.samplers])]
      [] OTHER -> st

RECURSIVE RunCalls(_, _)
RunCalls(st, calls) ==
    IF calls = <<>> THEN st ELSE RunCalls(ApplyCall(st, Head(calls)), Tail(calls))

\* handler.draw on the GL state: the draw calls and skipped writes are those
\* of this draw
RunDraw(st, p) == RunCalls([st EXCEPT !.draws = <<>>, !.skipped = 0], DrawScript(p))

(***************************************************************************)
(* Framebuffer objects of an inline frame.  A step names a framebuffer     *)
(* object by its handle (create, bind, delete) or works on what is bound   *)
(* to a target of the current context (attach, check, clear, blit); the    *)
(* bindings are state of each context.                                     *)
(***************************************************************************)
CreateSteps == {"create_fbo", "create_fbo2", "create_swapchain_fbo",
                "create_surface_tmp_fbo"}
DrawBindSteps == {"bind_draw_fbo", "bind_draw_swapchain_fbo", "bind_draw_default"}
ReadBindSteps == {"bind_read_fbo2", "bind_read_surface_tmp_fbo"}
DeleteSteps == {"delete_surface_tmp_fbo", "delete_swapchain_fbo"}

\* the framebuffer object whose handle a step passes
FboOf(step) ==
    CASE step \in {"create_fbo", "bind_draw_fbo"} -> "fbo"
      [] step \in {"create_fbo2", "bind_read_fbo2"} -> "fbo2"
      [] step \in {"create_swapchain_fbo", "bind_draw_swapchain_fbo",
                   "delete_swapchain_fbo"} -> "swapchain_fbo"
      [] step \in {"create_surface_tmp_fbo", "bind_read_surface_tmp_fbo",
                   "delete_surface_tmp_fbo"} -> "surface_tmp_fbo"
      [] OTHER -> "default"

MaxOf(S) == CHOOSE x \in S : \A y \in S : y <= x

\* the context that was current when the object was created in this frame
CreatedIn(log, ctxs, fbo) ==
    LET js == {j \in 1..Len(log) : log[j] \in CreateSteps /\ FboOf(log[j]) = fbo}
    IN  IF js = {} THEN "none" ELSE ctxs[MaxOf(js)]

\* framebuffer 0 of a context (bind_framebuffer(target, None))
DefaultFb == [name |-> "default", frame |-> 0, ctx |-> "none"]

\* the framebuffer object the handle a step passes names: the one this frame
\* created under that name, with the context it was created in
FbRef(log, ctxs, step, frame) ==
    IF FboOf(step) = "default" THEN DefaultFb
    ELSE [name |-> FboOf(step), frame |-> frame,
          ctx |-> CreatedIn(log, ctxs, FboOf(step))]

\* the framebuffer bindings of every context after a step run with `ctx`
\* current, `fb` being the object its handle names.  Bindings are state of the
\* context and outlive the frame; delete_framebuffer of an object of the
\* current context that is bound there leaves the default framebuffer bound
ApplyFrameBindings(bnd, step, fb, ctx) ==
    CASE step \in DrawBindSteps -> [bnd EXCEPT ![ctx].draw = fb]
      [] step \in ReadBindSteps -> [bnd EXCEPT ![ctx].read = fb]
      [] step \in DeleteSteps ->
            IF fb.ctx = ctx
            THEN [bnd EXCEPT ![ctx] =
                     [draw |-> IF @.draw = fb THEN DefaultFb ELSE @.draw,
                      read |-> IF @.read = fb THEN DefaultFb ELSE @.read]]
            ELSE bnd
      [] OTHER -> bnd

\* what is bound to a target ("draw", "read") in the context of step i when
\* the step runs
BoundAt(bnds, i, target) == bnds[i][target]

\* the framebuffer objects step i binds, attaches to, checks, renders to,
\* blits from or deletes
UsedFbos(log, ctxs, bnds, frame, i) ==
    LET step == log[i]
        drawFb == BoundAt(bnds, i, "draw")
        readFb == BoundAt(bnds, i, "read")
    IN  (CASE step \in (DrawBindSteps \cup ReadBindSteps \cup DeleteSteps) ->
                  {FbRef(log, ctxs, step, frame)}
           [] step \in {"attach_rbo_draw", "check_status_draw",
                        "check_status_draw_again", "clear"} -> {drawFb}
           [] step = "attach_rbo_read" -> {readFb}
           [] step = "blit" -> {readFb, drawFb}
           [] OTHER -> {}) \ {DefaultFb}

\* the objects alive after a step of frame number `frame` run with `ctx`
\* current: create_framebuffer and create_renderbuffer add one, and
\* delete_framebuffer removes the object the handle names in the current
\* context (framebuffer names belong to one context; a name that is no
\* object of the current context is ignored)
ApplyFrameObjects(objs, step, frame, ctx) ==
    CASE step \in CreateSteps ->
            objs \cup {[kind |-> "framebuffer", name |-> FboOf(step),
                        frame |-> frame, ctx |-> ctx]}
      [] step = "create_rbo" ->
            objs \cup {[kind |-> "renderbuffer", name |-> "rbo",
                        frame |-> frame, ctx |-> ctx]}
      [] step \in DeleteSteps ->
            objs \ {[kind |-> "framebuffer", name |-> FboOf(step),
                      frame |-> frame, ctx |-> ctx]}
      [] OTHER -> objs

\* the contexts in which the frame has used the renderbuffer so far
RboContexts(log, ctxs) ==
    {ctxs[i] : i \in {j \in 1..Len(log) :
                        log[j] \in {"attach_rbo_draw", "attach_rbo_read"}}}

(***************************************************************************)
(* Initial state: a freshly started process of one of the binaries.        *)
(***************************************************************************)
Idle ==
    /\ ctxCreated = {}
    /\ ctxDestroys = [c \in CtxNames |-> 0]
    /\ current = "none"
    /\ surfaceBound = {}
    /\ exit = FALSE
    /\ exitCode = NotExited
    /\ initCalls = 0
    /\ initReturned = FALSE
    /\ initLog = <<>>
    /\ drawCalls = 0
    /\ presentCalls = 0
    /\ exitCalls = 0
    /\ frames = 0
    /\ frameLog = <<>>
    /\ batchCount = 0
    /\ lastEvent = NoEvent
    /\ resizeEvents = <<>>
    /\ reconfigCalls = <<>>
    /\ redrawReqs = 0
    /\ firstFault = "none"
    /\ lastError = [code |-> NO_ERROR, decoded |-> "-"]
    /\ frameCtx = <<>>
    /\ gl = GlIdle
    /\ pollCalls = 0
    /\ objects = {}
    /\ bound = [c \in CtxNames |-> [draw |-> DefaultFb, read |-> DefaultFb]]
    /\ frameBound = <<>>
    /\ failedCall = "none"

Init ==
    /\ prog \in Programs
    /\ pc = "start"
    /\ bv = BvIdle
    /\ Idle

(***************************************************************************)
(* Set-up: window, connection, device, context(s), surface, bind, make     *)
(* current, GL loader.  Any unwrap() of it may panic.                      *)
(***************************************************************************)
Setup ==
    /\ pc = "start"
    /\ ctxCreated' = CreatedAfter(prog, Len(SetupCalls(prog)))
    /\ surfaceBound' = BoundAfter(prog, Len(SetupCalls(prog)))
    /\ current' = CurrentAfter(prog, Len(SetupCalls(prog)))
    /\ pc' = CASE prog \in Scenes -> "ready"
               [] prog \in FbProgs -> "loop"
               [] prog = "hello_window" -> "running"
    /\ UNCHANGED <<prog, ctxDestroys, exit, exitCode, initCalls, initReturned,
                   initLog, drawCalls, presentCalls, exitCalls, frames, frameLog,
                   batchCount, lastEvent, resizeEvents, reconfigCalls, redrawReqs,
                   firstFault, bv, glVars, failedCall>>

\* the k-th set-up call returns Err and its unwrap() panics: the calls before
\* it have taken effect and nothing is destroyed
SetupFail ==
    /\ pc = "start"
    /\ \E k \in 1..Len(SetupCalls(prog)) :
          /\ ctxCreated' = CreatedAfter(prog, k - 1)
          /\ surfaceBound' = BoundAfter(prog, k - 1)
          /\ current' = CurrentAfter(prog, k - 1)
    /\ pc' = "panicked"
    /\ exitCode' = PanicStatus
    /\ UNCHANGED <<prog, ctxDestroys, exit,
                   initCalls, initReturned, initLog, drawCalls, presentCalls,
                   exitCalls, frames, frameLog, batchCount, lastEvent,
                   resizeEvents, reconfigCalls, redrawReqs, firstFault, bv, glVars, failedCall>>

(***************************************************************************)
(* with_window: RndrHndlr::init(&mut gl), step by step.                    *)
(***************************************************************************)
InitBegin ==
    /\ pc = "ready"
    /\ prog \in Scenes
    /\ initCalls' = initCalls + 1
    /\ initLog' = <<>>
    /\ pc' = "init"
    /\ UNCHANGED <<prog, ctxCreated, ctxDestroys, current, surfaceBound, exit,
                   exitCode, initReturned, drawCalls, presentCalls, exitCalls,
                   frames, frameLog, batchCount, lastEvent, resizeEvents,
                   reconfigCalls, redrawReqs, firstFault, bv, glVars, failedCall>>

InitStep ==
    /\ pc = "init"
    /\ Len(initLog) < Len(InitScript(prog))
    /\ LET step == InitScript(prog)[Len(initLog) + 1]
       IN  \E ans \in DriverAnswers(step) :
             LET r == StepResult(step, ans)
             IN  /\ AnswerPossible(gl, prog, step, ans)
                 /\ initLog' = Append(initLog, step)
                 /\ gl' = ApplyVertexStep(ApplyInitStep(gl, step, ans), prog, step, ans)
                 /\ pc' = CASE r = "ok" -> "init"
                            [] r = "exit1" -> "exited"
                            [] r = "panic" -> "panicked"
                 /\ exitCode' = IF r = "ok" THEN exitCode ELSE ResultCode(r)
                 /\ firstFault' = NoteFault(firstFault, step, ans)
    /\ UNCHANGED <<prog, ctxCreated, ctxDestroys, current, surfaceBound, exit,
                   initCalls, initReturned, drawCalls, presentCalls, exitCalls,
                   frames, frameLog, batchCount, lastEvent, resizeEvents,
                   reconfigCalls, redrawReqs, lastError, frameCtx, frameBound, pollCalls, objects, bound, bv, failedCall>>

InitReturn ==
    /\ pc = "init"
    /\ Len(initLog) = Len(InitScript(prog))
    /\ initReturned' = TRUE
    /\ pc' = "loop"
    /\ UNCHANGED <<prog, ctxCreated, ctxDestroys, current, surfaceBound, exit,
                   exitCode, initCalls, initLog, drawCalls, presentCalls, exitCalls,
                   frames, frameLog, batchCount, lastEvent, resizeEvents,
                   reconfigCalls, redrawReqs, firstFault, bv, glVars, failedCall>>

(***************************************************************************)
(* The poll loop: while !exit { draw; unbind; present; bind; poll_events } *)
(***************************************************************************)
\* LoopTest with the handler instantiated inside the loop
LoopTestReinit ==
    /\ pc = "loop"
    /\ IF exit
       THEN /\ pc' = "teardown"
            /\ UNCHANGED <<frames, frameLog, frameCtx, frameBound>>
       ELSE /\ frames < MaxFrames
            /\ frames' = frames + 1
            /\ frameLog' = <<>>
            /\ frameCtx' = <<>>
            /\ frameBound' = <<>>
            /\ pc' = IF prog \in Scenes /\ frames > 0 THEN "ready" ELSE "draw"
    /\ UNCHANGED <<prog, ctxCreated, ctxDestroys, current, surfaceBound, exit,
                   exitCode, initCalls, initReturned, initLog, drawCalls,
                   presentCalls, exitCalls, batchCount, lastEvent, resizeEvents,
                   reconfigCalls, redrawReqs, firstFault, lastError, gl, pollCalls,
                   objects, bound, bv, failedCall>>

\* LoopTest of a loop that polls for events before its first frame
LoopTestPollsFirst ==
    /\ pc = "loop"
    /\ IF exit
       THEN /\ pc' = "teardown"
            /\ UNCHANGED <<frames, frameLog, frameCtx, frameBound>>
       ELSE /\ frames < MaxFrames
            /\ frames' = frames + 1
            /\ frameLog' = <<>>
            /\ frameCtx' = <<>>
            /\ frameBound' = <<>>
            /\ pc' = IF frames = 0 THEN "pollbegin" ELSE "draw"
    /\ UNCHANGED <<prog, ctxCreated, ctxDestroys, current, surfaceBound, exit,
                   exitCode, initCalls, initReturned, initLog, drawCalls,
                   presentCalls, exitCalls, batchCount, lastEvent, resizeEvents,
                   reconfigCalls, redrawReqs, firstFault, lastError, gl, pollCalls,
                   objects, bound, bv, failedCall>>

LoopTest ==
    /\ pc = "loop"
    /\ IF exit
       THEN /\ pc' = "teardown"
            /\ UNCHANGED <<frames, frameLog, frameCtx, frameBound>>
       ELSE /\ frames < MaxFrames
            /\ frames' = frames + 1
            /\ frameLog' = <<>>
            /\ frameCtx' = <<>>
            /\ frameBound' = <<>>
            /\ pc' = "draw"
    /\ UNCHANGED <<prog, ctxCreated, ctxDestroys, current, surfaceBound, exit,
                   exitCode, initCalls, initReturned, initLog, drawCalls,
                   presentCalls, exitCalls, batchCount, lastEvent, resizeEvents,
                   reconfigCalls, redrawReqs, firstFault, lastError, gl, pollCalls,
                   objects, bound, bv, failedCall>>

\* handler.draw(&mut gl)
Draw ==
    /\ pc = "draw"
    /\ prog \in Scenes
    /\ gl' = RunDraw(gl, prog)
    /\ drawCalls' = drawCalls + 1
    /\ pc' = "unbind"
    /\ UNCHANGED <<prog, ctxCreated, ctxDestroys, current, surfaceBound, exit,
                   exitCode, initCalls, initReturned, initLog, presentCalls,
                   exitCalls, frames, frameLog, batchCount, lastEvent,
                   resizeEvents, reconfigCalls, redrawReqs, firstFault,
                   lastError, frameCtx, frameBound, pollCalls, objects, bound, bv, failedCall>>

\* one GL step of the inline frame of a framebuffer example
FrameStep ==
    /\ pc = "draw"
    /\ prog \in FbProgs
    /\ Len(frameLog) < Len(FrameScript(prog))
    /\ LET step == FrameScript(prog)[Len(frameLog) + 1]
           last == Len(frameLog) + 1 = Len(FrameScript(prog))
       IN  \E ans \in DriverAnswers(step) :
             LET r == StepResult(step, ans)
             IN  /\ frameLog' = Append(frameLog, step)
                 /\ current' = IF step = "make_surface_context_current" /\ r = "ok"
                               THEN "surface_context" ELSE current
                 /\ frameCtx' = Append(frameCtx, current')
                 /\ objects' = IF r = "ok"
                               THEN ApplyFrameObjects(objects, step, frames, current)
                               ELSE objects
                 /\ frameBound' = Append(frameBound, bound[current'])
                 /\ bound' = ApplyFrameBindings(bound, step,
                                                FbRef(frameLog, frameCtx, step, frames),
                                                current')
                 /\ pc' = CASE r = "panic" -> "panicked"
                            [] r = "ok" /\ last -> "unbind"
                            [] OTHER -> "draw"
                 /\ drawCalls' = IF r = "ok" /\ last THEN drawCalls + 1 ELSE drawCalls
                 /\ exitCode' = IF r = "ok" THEN exitCode ELSE ResultCode(r)
                 /\ firstFault' = NoteFault(firstFault, step, ans)
                 /\ lastError' = IF step = "get_error" THEN ErrorSeen(ans) ELSE lastError
    /\ UNCHANGED <<prog, ctxCreated, ctxDestroys, surfaceBound, exit, initCalls,
                   initReturned, initLog, presentCalls, exitCalls, frames,
                   batchCount, lastEvent, resizeEvents, reconfigCalls, redrawReqs,
                   gl, pollCalls, bv, failedCall>>

\* what a device call of the loop or of the teardown may return
DeviceResults == {"Ok", "Err"}

\* device.unbind_surface_from_context(..).unwrap().unwrap(): the first unwrap
\* panics on Err, the second when no surface was bound to the context
Unbind ==
    /\ pc = "unbind"
    /\ \E res \in DeviceResults :
         CASE res = "Err" ->
                /\ pc' = "panicked"
                /\ exitCode' = PanicStatus
                /\ failedCall' = "unbind_surface_from_context"
                /\ UNCHANGED surfaceBound
           [] res = "Ok" /\ SurfaceCtx(prog) \notin surfaceBound ->
                /\ pc' = "panicked"
                /\ exitCode' = PanicStatus
                /\ failedCall' = "unbind_found_no_surface"
                /\ UNCHANGED surfaceBound
           [] OTHER ->
                /\ surfaceBound' = surfaceBound \ {SurfaceCtx(prog)}
                /\ pc' = "present"
                /\ UNCHANGED <<exitCode, failedCall>>
    /\ UNCHANGED <<prog, ctxCreated, ctxDestroys, current, exit, initCalls,
                   initReturned, initLog, drawCalls, presentCalls, exitCalls,
                   frames, frameLog, batchCount, lastEvent, resizeEvents,
                   reconfigCalls, redrawReqs, firstFault, bv, glVars>>

\* Present that hands the surface back without presenting it
PresentSkipped ==
    /\ pc = "present"
    /\ pc' = "rebind"
    /\ UNCHANGED <<prog, ctxCreated, ctxDestroys, current, surfaceBound, exit,
                   exitCode, initCalls, initReturned, initLog, drawCalls,
                   presentCalls, exitCalls, frames, frameLog, batchCount,
                   lastEvent, resizeEvents, reconfigCalls, redrawReqs, firstFault,
                   bv, glVars, failedCall>>

\* device.present_surface(..).unwrap()
Present ==
    /\ pc = "present"
    /\ \E res \in DeviceResults :
         IF res = "Ok"
         THEN /\ presentCalls' = presentCalls + 1
              /\ pc' = "rebind"
              /\ UNCHANGED <<exitCode, failedCall>>
         ELSE /\ pc' = "panicked"
              /\ exitCode' = PanicStatus
              /\ failedCall' = "present_surface"
              /\ UNCHANGED presentCalls
    /\ UNCHANGED <<prog, ctxCreated, ctxDestroys, current, surfaceBound, exit,
                   initCalls, initReturned, initLog, drawCalls,
                   exitCalls, frames, frameLog, batchCount, lastEvent,
                   resizeEvents, reconfigCalls, redrawReqs, firstFault, bv, glVars>>

\* Rebind that drops the presented surface instead of binding it again
RebindForgotten ==
    /\ pc = "rebind"
    /\ pc' = "pollbegin"
    /\ UNCHANGED <<prog, ctxCreated, ctxDestroys, current, surfaceBound, exit,
                   exitCode, initCalls, initReturned, initLog, drawCalls,
                   presentCalls, exitCalls, frames, frameLog, batchCount,
                   lastEvent, resizeEvents, reconfigCalls, redrawReqs, firstFault,
                   bv, glVars, failedCall>>

\* device.bind_surface_to_context(..).unwrap()
Rebind ==
    /\ pc = "rebind"
    /\ \E res \in DeviceResults :
         IF res = "Ok"
         THEN /\ surfaceBound' = surfaceBound \cup {SurfaceCtx(prog)}
              /\ pc' = "pollbegin"
              /\ UNCHANGED <<exitCode, failedCall>>
         ELSE /\ pc' = "panicked"
              /\ exitCode' = PanicStatus
              /\ failedCall' = "bind_surface_to_context"
              /\ UNCHANGED surfaceBound
    /\ UNCHANGED <<prog, ctxCreated, ctxDestroys, current, exit,
                   initCalls, initReturned, initLog, drawCalls, presentCalls,
                   exitCalls, frames, frameLog, batchCount, lastEvent,
                   resizeEvents, reconfigCalls, redrawReqs, firstFault, bv, glVars>>

\* event_loop.poll_events(closure) is called: a batch of events begins
PollBegin ==
    /\ pc = "pollbegin"
    /\ batchCount' = 0
    /\ pollCalls' = pollCalls + 1
    /\ pc' = "poll"
    /\ UNCHANGED <<prog, ctxCreated, ctxDestroys, current, surfaceBound, exit,
                   exitCode, initCalls, initReturned, initLog, drawCalls,
                   presentCalls, exitCalls, frames, frameLog, lastEvent,
                   resizeEvents, reconfigCalls, redrawReqs, firstFault, lastError,
                   frameCtx, frameBound, gl, objects, bound, failedCall, bv>>

\* the events a loop can still be handed within the bounds of the model
Deliverable(e) ==
    /\ IsResize(e) => Len(resizeEvents) < MaxResizes
    /\ IsRedrawRequest(e) => redrawReqs < MaxRedrawReqs

\* poll_events hands one pending event to the closure
PollEvent ==
    /\ pc = "poll"
    /\ batchCount < MaxBatch
    /\ \E e \in PollEventSet :
         /\ Deliverable(e)
         /\ lastEvent' = e
         /\ exit' = PollHandler(e, exit)
         /\ reconfigCalls' = reconfigCalls \o PollHandlerResizes(e)
         /\ resizeEvents' = IF IsResize(e) THEN Append(resizeEvents, e.size)
                            ELSE resizeEvents
         /\ redrawReqs' = IF IsRedrawRequest(e) THEN redrawReqs + 1 ELSE redrawReqs
    /\ batchCount' = batchCount + 1
    /\ UNCHANGED <<prog, pc, ctxCreated, ctxDestroys, current, surfaceBound,
                   exitCode, initCalls, initReturned, initLog, drawCalls,
                   presentCalls, exitCalls, frames, frameLog, firstFault, bv, glVars, failedCall>>

\* poll_events returns: no event is pending any more
PollEnd ==
    /\ pc = "poll"
    /\ pc' = "loop"
    /\ UNCHANGED <<prog, ctxCreated, ctxDestroys, current, surfaceBound, exit,
                   exitCode, initCalls, initReturned, initLog, drawCalls,
                   presentCalls, exitCalls, frames, frameLog, batchCount,
                   lastEvent, resizeEvents, reconfigCalls, redrawReqs, firstFault, bv, glVars, failedCall>>

\* device.destroy_context(..).unwrap(), one call: Err panics with the
\* contexts not yet destroyed left alone; after the last one main returns
Destroy ==
    /\ pc = "teardown"
    /\ DestroyCalls < Len(TeardownOrder(prog))
    /\ LET c == TeardownOrder(prog)[DestroyCalls + 1]
           last == DestroyCalls + 1 = Len(TeardownOrder(prog))
       IN  \E res \in DeviceResults :
             IF res = "Ok"
             THEN /\ ctxDestroys' = [ctxDestroys EXCEPT ![c] = @ + 1]
                  /\ pc' = IF last THEN "done" ELSE "teardown"
                  /\ exitCode' = IF last THEN ExitSuccess ELSE exitCode
                  /\ UNCHANGED failedCall
             ELSE /\ pc' = "panicked"
                  /\ exitCode' = PanicStatus
                  /\ failedCall' = "destroy_context"
                  /\ UNCHANGED ctxDestroys
    /\ UNCHANGED <<prog, ctxCreated, current, surfaceBound, exit, initCalls,
                   initReturned, initLog, drawCalls, presentCalls, exitCalls,
                   frames, frameLog, batchCount, lastEvent, resizeEvents,
                   reconfigCalls, redrawReqs, firstFault, bv, glVars>>

(***************************************************************************)
(* 00_hello_window: el.run(closure).                                       *)
(***************************************************************************)
\* the closure handles one event; the swap_buffers().unwrap() of the
\* RedrawRequested arm panics on Err, after the frame was drawn
HelloEvent ==
    /\ pc = "running"
    /\ prog = "hello_window"
    /\ batchCount < MaxEvents
    /\ \E e \in HelloEventSet :
         /\ Deliverable(e)
         /\ lastEvent' = e
         /\ exit' = StickyExit(exit, HelloHandlerFlow(e))
         /\ drawCalls' = drawCalls + HelloHandlerDraws(e)
         /\ reconfigCalls' = reconfigCalls \o HelloHandlerResizes(e)
         /\ resizeEvents' = IF IsResize(e) THEN Append(resizeEvents, e.size)
                            ELSE resizeEvents
         /\ redrawReqs' = IF IsRedrawRequest(e) THEN redrawReqs + 1 ELSE redrawReqs
         /\ \E res \in (IF HelloHandlerSwaps(e) > 0 THEN DeviceResults ELSE {"Ok"}) :
              IF res = "Ok"
              THEN /\ presentCalls' = presentCalls + HelloHandlerSwaps(e)
                   /\ UNCHANGED <<pc, exitCode, failedCall>>
              ELSE /\ pc' = "panicked"
                   /\ exitCode' = PanicStatus
                   /\ failedCall' = "swap_buffers"
                   /\ UNCHANGED presentCalls
    /\ batchCount' = batchCount + 1
    /\ UNCHANGED <<prog, ctxCreated, ctxDestroys, current, surfaceBound,
                   initCalls, initReturned, initLog, exitCalls, frames,
                   frameLog, firstFault, bv, glVars>>

\* ControlFlow::Exit was reached: the closure gets LoopDestroyed, returns, and
\* run() ends the process with status 0
HelloLoopDestroyed ==
    /\ pc = "running"
    /\ prog = "hello_window"
    /\ exit
    /\ LET e == Ev("LoopDestroyed", NoKey, NoSize)
       IN  /\ lastEvent' = e
           /\ drawCalls' = drawCalls + HelloHandlerDraws(e)
           /\ presentCalls' = presentCalls + HelloHandlerSwaps(e)
           /\ reconfigCalls' = reconfigCalls \o HelloHandlerResizes(e)
    /\ pc' = "done"
    /\ exitCode' = ExitSuccess
    /\ UNCHANGED <<prog, ctxCreated, ctxDestroys, current, surfaceBound, exit,
                   initCalls, initReturned, initLog, exitCalls, frames, frameLog,
                   batchCount, resizeEvents, redrawReqs, firstFault, bv, glVars, failedCall>>

Next ==
    \/ Setup
    \/ SetupFail
    \/ InitBegin
    \/ InitStep
    \/ InitReturn
    \/ LoopTest
    \/ Draw
    \/ FrameStep
    \/ Unbind
    \/ Present
    \/ Rebind
    \/ PollBegin
    \/ PollEvent
    \/ PollEnd
    \/ Destroy
    \/ HelloEvent
    \/ HelloLoopDestroyed

Spec == Init /\ [][Next]_vars

\* Every step but the arrival of an event in 00_hello_window (the loop waits
\* for the next event) is a step of the one thread, which keeps running.
Progress ==
    \/ Setup
    \/ InitBegin
    \/ InitStep
    \/ InitReturn
    \/ LoopTest
    \/ Draw
    \/ FrameStep
    \/ Unbind
    \/ Present
    \/ Rebind
    \/ PollBegin
    \/ PollEnd
    \/ Destroy
    \/ HelloLoopDestroyed

FairSpec == Spec /\ WF_vars(Progress)

(***************************************************************************)
(* The byte-view harness: as_mem_bytes applied to one input.               *)
(***************************************************************************)
InitBytes ==
    /\ prog = "as_mem_bytes"
    /\ pc = "bytes"
    /\ bv \in BvInputs
    /\ Idle

ApplyAsMemBytes ==
    /\ pc = "bytes"
    /\ bv.phase = "input"
    /\ bv' = [bv EXCEPT !.phase = "done"] @@
             [view |-> AsMemBytes(bv.container, bv.elemSize, bv.elems, bv.ptrWidth)]
    /\ UNCHANGED <<prog, pc, ctxCreated, ctxDestroys, current, surfaceBound, exit,
                   exitCode, initCalls, initReturned, initLog, drawCalls,
                   presentCalls, exitCalls, frames, frameLog, batchCount,
                   lastEvent, resizeEvents, reconfigCalls, redrawReqs, firstFault, glVars, failedCall>>

NextBytes == ApplyAsMemBytes

SpecBytes == InitBytes /\ [][NextBytes]_vars

(***************************************************************************)
(* The decoder harness: Error::from_error_code applied to one code.  The   *)
(* codes are runs of MaxCodeOffset + 1 consecutive values from 0, from     *)
(* INVALID_ENUM, from FRAMEBUFFER_COMPLETE and up to the largest code the  *)
(* checker's integers hold.                                                *)
(***************************************************************************)
CodeInputs ==
    {base + k : base \in {NO_ERROR, INVALID_ENUM, FRAMEBUFFER_COMPLETE,
                           2147483647 - MaxCodeOffset},
                k \in 0..MaxCodeOffset}

InitCodes ==
    /\ prog = "from_error_code"
    /\ pc = "decode"
    /\ bv \in {[phase |-> "input", code |-> c] : c \in CodeInputs}
    /\ Idle

ApplyFromErrorCode ==
    /\ pc = "decode"
    /\ bv.phase = "input"
    /\ bv' = [phase |-> "done", code |-> bv.code, variant |-> FromErrorCode(bv.code)]
    /\ UNCHANGED <<prog, pc, ctxCreated, ctxDestroys, current, surfaceBound, exit,
                   exitCode, initCalls, initReturned, initLog, drawCalls,
                   presentCalls, exitCalls, frames, frameLog, batchCount,
                   lastEvent, resizeEvents, reconfigCalls, redrawReqs, firstFault,
                   glVars, failedCall>>

NextCodes == ApplyFromErrorCode

SpecCodes == InitCodes /\ [][NextCodes]_vars

(***************************************************************************)
(* Properties.                                                             *)
(***************************************************************************)
LoopStates == {"loop", "draw", "unbind", "present", "rebind", "pollbegin", "poll",
               "teardown", "done"}
ShaderChecks == {"check_vs", "check_fs", "check_link"}

\* C1: in with_window, init is invoked at most once, only with the context
\* created and current, exactly once before the loop is entered, and no draw
\* happens before init has returned.
C1_InitOnceBeforeDraw ==
    prog \in Scenes =>
        /\ initCalls <= 1
        /\ (initCalls >= 1 => "context" \in ctxCreated /\ current = "context")
        /\ (drawCalls > 0 => initCalls = 1 /\ initReturned)
        /\ (pc \in LoopStates => initCalls = 1 /\ initReturned)
        /\ (initReturned => initCalls = 1)

C1_Witness ==
    /\ prog \in Scenes
    /\ initCalls = 1
    /\ initReturned
    /\ drawCalls = 2

\* C2: in with_window, once a close has been requested and the loop has ended,
\* the handler's exit hook has been called exactly once (and so before the
\* context is destroyed).
C2_ExitHookCalledOnClose ==
    (prog \in Scenes /\ exit /\ pc \in {"teardown", "done"}) => exitCalls = 1

\* C4: the view as_mem_bytes returns for k elements of s bytes has exactly
\* k*s bytes and is the in-memory representation of the sequence.
C4_ViewIsRepresentation ==
    bv.phase = "done" =>
        /\ Len(bv.view) = Len(bv.elems) * bv.elemSize
        /\ \A i \in DOMAIN bv.view : bv.view[i] = {MemRep(bv.elems, bv.elemSize)[i]}

\* C5: in every bootstrap the resize calls made are exactly the resize events
\* delivered, in order and with their sizes.
C5_EveryResizeReconfigures == reconfigCalls = resizeEvents

\* C6 as stated: the draw calls are as many as the redraw requests received,
\* and never more than those received so far.
C6_DrawPerRedrawRequest ==
    prog \in Scenes \cup {"hello_window"} =>
        /\ drawCalls <= redrawReqs
        /\ (pc = "done" => drawCalls = redrawReqs)

\* the device calls between a draw and the end of its present
PresentPath == {"unbind_surface_from_context", "present_surface", "swap_buffers"}

\* C7 as stated: draws and presents alternate: a present never runs ahead of
\* the draws, at most one drawn frame awaits its present, and while one does
\* the program is between that draw and its present, so every draw gets its
\* present.
C7_DrawThenPresent ==
    /\ presentCalls <= drawCalls
    /\ drawCalls <= presentCalls + 1
    /\ (drawCalls = presentCalls + 1 => pc \in {"unbind", "present"})

\* C7 amended: draws and presents alternate, and a drawn frame is presented
\* before the next draw and before any further event is handled, unless the
\* unbind, the present or the swap fails: the run then panics with that one
\* frame drawn and not presented.
C7_DrawThenPresentOrAbort ==
    /\ presentCalls <= drawCalls
    /\ drawCalls <= presentCalls + 1
    /\ (drawCalls = presentCalls + 1 =>
            \/ pc \in {"unbind", "present"}
            \/ pc = "panicked" /\ exitCode = PanicStatus /\ failedCall \in PresentPath)
    /\ (failedCall \in PresentPath =>
            pc = "panicked" /\ drawCalls = presentCalls + 1)

C7_Witness ==
    /\ prog \in Scenes
    /\ pc = "panicked"
    /\ failedCall = "present_surface"
    /\ drawCalls = 2
    /\ presentCalls = 1
    /\ pollCalls = 1

\* C8: a run that ends by a normal window close ends with status 0, a run in
\* which a shader fails to compile or the program fails to link ends with
\* status 1, and neither status comes about otherwise.
C8_ExitCodes ==
    /\ (pc = "done" => exitCode = ExitSuccess)
    /\ (firstFault \in ShaderChecks => exitCode = ExitFailure)
    /\ (exitCode = ExitSuccess => pc = "done" /\ exit)
    /\ (exitCode = ExitFailure => firstFault \in ShaderChecks)

C8_Witness ==
    /\ firstFault = "check_link"
    /\ exitCode = ExitFailure

\* The close signals of C9 as stated, and those each loop acts on.
EscapeFor(p, e) ==
    /\ e.key = "Escape"
    /\ e.kind = (IF p = "hello_window" THEN "WindowKeyboardInput" ELSE "DeviceKey")

StatedClose ==
    \/ lastEvent.kind \in {"WindowCloseRequested", "WindowDestroyed"}
    \/ EscapeFor(prog, lastEvent)

HandledClose ==
    \/ lastEvent.kind = "WindowCloseRequested"
    \/ lastEvent.kind = "WindowDestroyed" /\ prog \in PollProgs
    \/ EscapeFor(prog, lastEvent)

Finalized ==
    /\ pc = "done"
    /\ exitCode = ExitSuccess
    /\ prog \in PollProgs => \A c \in ctxCreated : ctxDestroys[c] = 1

\* a run that a failing call ended after the close was handled
AbortedAfterClose ==
    /\ pc = "panicked"
    /\ exitCode = PanicStatus
    /\ failedCall \in {"destroy_context", "swap_buffers"}

\* C9 as stated: once CloseRequested, Destroyed or Escape has been delivered
\* to the loop, the loop terminates with each created context destroyed
\* exactly once.
C9_AnyCloseSignalTerminates ==
    StatedClose ~> (pc = "done" /\ \A c \in ctxCreated : ctxDestroys[c] = 1)

\* C9 amended: once a poll loop has been handed CloseRequested, Destroyed or a
\* device key event with Escape, or 00_hello_window has been handed
\* CloseRequested or a keyboard input with Escape, the run ends: with status 0,
\* a poll-based program having destroyed each context it created exactly
\* once, or in a panic of a failed destroy_context (some context then stays
\* undestroyed) or of a failed swap_buffers.  No context is ever destroyed
\* twice, and 00_hello_window destroys none.
C9_CloseTerminates ==
    /\ HandledClose ~> (Finalized \/ AbortedAfterClose)
    /\ [](\A c \in CtxNames : ctxDestroys[c] <= 1)
    /\ [](prog = "hello_window" => \A c \in CtxNames : ctxDestroys[c] = 0)
    /\ [](failedCall = "destroy_context" =>
            /\ prog \in PollProgs
            /\ pc = "panicked"
            /\ \E c \in ctxCreated : ctxDestroys[c] = 0)

C9_Witness ==
    /\ prog = "framebuffers_02"
    /\ pc = "done"
    /\ lastEvent.kind = "WindowDestroyed"
    /\ ctxDestroys["root_context"] = 1
    /\ ctxDestroys["surface_context"] = 1

\* C10: in a scene's init each compile is followed at once by its status check
\* and the link by the link check; when the driver reports a failure at one of
\* them, that check is the last step of the run: init does not return and
\* nothing is drawn or presented.
FollowedBy(log, a, b) ==
    \A i \in 1..Len(log) : (log[i] = a /\ i < Len(log)) => log[i + 1] = b

C10_ChecksAbortInit ==
    prog \in Scenes =>
        /\ FollowedBy(initLog, "compile_vs", "check_vs")
        /\ FollowedBy(initLog, "compile_fs", "check_fs")
        /\ FollowedBy(initLog, "link_program", "check_link")
        /\ (initReturned =>
                {"compile_vs", "compile_fs", "link_program"} \subseteq Range(initLog))
        /\ (firstFault \in ShaderChecks =>
                /\ initLog[Len(initLog)] = firstFault
                /\ pc = "exited"
                /\ ~initReturned
                /\ drawCalls = 0
                /\ presentCalls = 0)

C10_Witness ==
    /\ prog = "textures_01"
    /\ firstFault = "check_fs"
    /\ pc = "exited"

\* C11: in the framebuffer examples, a completeness check whose status is not
\* FRAMEBUFFER_COMPLETE aborts the run before the blit of that frame, and the
\* check of the draw framebuffer aborts it before the clear as well.
StatusChecks == {"check_status_draw", "check_status_draw_again"}

C11_IncompleteStatusAborts ==
    (prog \in FbProgs /\ firstFault \in StatusChecks) =>
        /\ pc = "panicked"
        /\ "blit" \notin Range(frameLog)
        /\ (firstFault = "check_status_draw" => "clear" \notin Range(frameLog))

\* C12: in the framebuffer examples every frame that gets as far as the
\* hand-over of the surface has queried the error code after its blit; a code
\* other than NO_ERROR ends the run in a panic whose message is built from
\* the decoded code, and the surface is presented for no frame from that one on.
Before(log, a, b) ==
    \A i, j \in 1..Len(log) : (log[i] = a /\ log[j] = b) => i < j

C12_ErrorCodeAborts ==
    prog \in FbProgs =>
        /\ Before(frameLog, "blit", "get_error")
        /\ (pc \in {"unbind", "present", "rebind", "pollbegin", "poll"} =>
                /\ frameLog[Len(frameLog)] = "get_error"
                /\ "blit" \in Range(frameLog)
                /\ lastError.code = NO_ERROR)
        /\ presentCalls <= frames
        /\ (lastError.code # NO_ERROR =>
                /\ pc = "panicked"
                /\ exitCode = PanicStatus
                /\ lastError.decoded \notin {"NoError", "-"}
                /\ frameLog[Len(frameLog)] = "get_error"
                /\ presentCalls = frames - 1)

C12_Witness ==
    /\ prog = "framebuffers_02"
    /\ lastError.code = INVALID_FRAMEBUFFER_OPERATION
    /\ lastError.decoded = "InvalidFramebufferOperation"
    /\ frames = 2
    /\ presentCalls = 1
    /\ pc = "panicked"

\* C13: in 06_framebuffers_02 every step that binds, attaches to, checks,
\* blits from or deletes a framebuffer object runs in the context in which
\* that object was created; the renderbuffer alone is used in both contexts.
C13_FbosStayInTheirContext ==
    prog = "framebuffers_02" =>
        /\ \A i \in 1..Len(frameLog) :
              \A fbo \in UsedFbos(frameLog, frameCtx, frameBound, frames, i) :
                  fbo.ctx = frameCtx[i]
        /\ ("attach_rbo_read" \in Range(frameLog) =>
                RboContexts(frameLog, frameCtx) = {"root_context", "surface_context"})

\* C14: at every point of a run at most one context has the window's surface
\* bound to it, and it is a context that was created; in 06_framebuffers_02,
\* where two contexts coexist, the root context never has it.
C14_OneContextHoldsSurface ==
    /\ Cardinality(surfaceBound) <= 1
    /\ surfaceBound \subseteq ctxCreated
    /\ "root_context" \notin surfaceBound

C14_Witness ==
    /\ prog = "framebuffers_02"
    /\ ctxCreated = {"root_context", "surface_context"}
    /\ surfaceBound = {"surface_context"}
    /\ current = "root_context"
    /\ "clear" \in Range(frameLog)

\* C15: in shaders_01 and 05_textures_01 (4 vertices, 6 indices) every draw
\* issues exactly one draw call, an indexed one of 6 indices of type
\* UNSIGNED_INT: as many as the uploaded index array has elements and of the
\* type of its elements, each index naming one of the 4 vertices.
QuadScenes == {"shaders_01", "textures_01"}

C15_IndexedDrawOfSix ==
    (prog \in QuadScenes /\ drawCalls > 0) =>
        /\ VertexCount(prog) = 4
        /\ Len(gl.draws) = 1
        /\ gl.draws[1].op = "draw_elements"
        /\ gl.draws[1].count = 6
        /\ gl.draws[1].type = "UNSIGNED_INT"
        /\ gl.draws[1].count = gl.ebo.arrayLen
        /\ gl.draws[1].type = GlTypeOf(gl.ebo.elemType)
        /\ gl.draws[1].count * SizeOfU32 <= gl.ebo.bytes
        /\ \A k \in 1..gl.draws[1].count : TRI_VERTICE_INDEXES[k] < VertexCount(prog)

C15_Witness ==
    /\ prog = "textures_01"
    /\ drawCalls = 2
    /\ pc = "unbind"
    /\ Len(gl.draws) = 1
    /\ gl.draws[1].count = 6
    /\ gl.ebo.arrayLen = 6
    /\ gl.ebo.bytes = 96

\* C16: wherever a scene looks up a uniform, a missing one is a failure of the
\* run: a missing "time" ends init, and no draw completes with a sampler
\* uniform missing or with a uniform write skipped.
C16_MissingUniformReported ==
    prog \in Scenes =>
        /\ (("get_uniform_location_time" \in Range(initLog) /\ "time" \notin gl.uniforms) =>
                pc = "panicked" /\ ~initReturned /\ drawCalls = 0)
        /\ (drawCalls > 0 => gl.skipped = 0)
        /\ ((prog = "textures_01" /\ drawCalls > 0) => SamplerNames \subseteq gl.uniforms)

\* C17: in 05_textures_01, at every indexed draw call texture0 is bound on
\* unit 0 and the sampler imageTexture1 holds 0, texture1 is bound on unit 1
\* and the sampler imageTexture2 holds 1, and both textures were created with
\* REPEAT wrapping on both axes and LINEAR min and mag filters.
SamplerHolds(samplers, name, unit) ==
    name \in DOMAIN samplers /\ samplers[name] = unit

CreatedRepeatLinear(params, tex) ==
    /\ tex \in DOMAIN params
    /\ params[tex] = [wrap_s |-> "REPEAT", wrap_t |-> "REPEAT",
                      min_filter |-> "LINEAR", mag_filter |-> "LINEAR"]

C17_TexturesMatchSamplers ==
    (prog = "textures_01" /\ drawCalls > 0) =>
        \A k \in 1..Len(gl.draws) :
            /\ gl.draws[k].units = <<"texture0", "texture1">>
            /\ SamplerHolds(gl.draws[k].samplers, "imageTexture1", 0)
            /\ SamplerHolds(gl.draws[k].samplers, "imageTexture2", 1)
            /\ CreatedRepeatLinear(gl.texParams, "texture0")
            /\ CreatedRepeatLinear(gl.texParams, "texture1")

\* C18: in every frame of 06_framebuffers_02 the swapchain framebuffer is
\* created, given the renderbuffer and cleared with root_context current, and
\* the temporary read framebuffer and the blit run with surface_context
\* current.
RootContextSteps ==
    {"create_swapchain_fbo", "bind_draw_swapchain_fbo", "attach_rbo_draw", "clear"}
SurfaceContextSteps ==
    {"create_surface_tmp_fbo", "bind_read_surface_tmp_fbo", "attach_rbo_read", "blit"}

C18_EachFrameUsesBothContexts ==
    prog = "framebuffers_02" =>
        \A i \in 1..Len(frameLog) :
            /\ (frameLog[i] \in RootContextSteps => frameCtx[i] = "root_context")
            /\ (frameLog[i] \in SurfaceContextSteps => frameCtx[i] = "surface_context")

\* C19: Error::from_error_code returns a variant for every code; each of
\* NO_ERROR, INVALID_ENUM, INVALID_VALUE, INVALID_OPERATION,
\* INVALID_FRAMEBUFFER_OPERATION and OUT_OF_MEMORY gets a variant of its own,
\* every other code gets UnknownError, and NoError is returned for NO_ERROR
\* only.
ErrorVariants ==
    {"NoError", "InvalidEnum", "InvalidValue", "InvalidOperation",
     "InvalidFramebufferOperation", "OutOfMemory", "UnknownError"}

KnownCodes ==
    {NO_ERROR, INVALID_ENUM, INVALID_VALUE, INVALID_OPERATION,
     INVALID_FRAMEBUFFER_OPERATION, OUT_OF_MEMORY}

C19_FromErrorCodeTotal ==
    (pc = "decode" /\ bv.phase = "done") =>
        /\ bv.variant \in ErrorVariants
        /\ (bv.code = NO_ERROR => bv.variant = "NoError")
        /\ (bv.code = INVALID_ENUM => bv.variant = "InvalidEnum")
        /\ (bv.code = INVALID_VALUE => bv.variant = "InvalidValue")
        /\ (bv.code = INVALID_OPERATION => bv.variant = "InvalidOperation")
        /\ (bv.code = INVALID_FRAMEBUFFER_OPERATION =>
                bv.variant = "InvalidFramebufferOperation")
        /\ (bv.code = OUT_OF_MEMORY => bv.variant = "OutOfMemory")
        /\ (bv.code \notin KnownCodes => bv.variant = "UnknownError")
        /\ (bv.variant = "NoError" => bv.code = NO_ERROR)
        /\ Cardinality({FromErrorCode(c) : c \in KnownCodes}) = Cardinality(KnownCodes)
        /\ "UnknownError" \notin {FromErrorCode(c) : c \in KnownCodes}

C19_Witness ==
    /\ pc = "decode"
    /\ bv.phase = "done"
    /\ bv.code = OUT_OF_MEMORY
    /\ bv.variant = "OutOfMemory"

\* C20: in the poll loops the exit flag changes only by being set, while an
\* event of the batch is handled, and only for a CloseRequested event, a
\* Destroyed event or a key event whose key is Escape; once it is true it
\* stays true, and from then on nothing is drawn or presented and no new
\* iteration begins: the loop test that follows the batch leaves the loop.
ClosingEvent(event) ==
    \/ event.kind \in {"WindowCloseRequested", "WindowDestroyed"}
    \/ event.kind \in {"DeviceKey", "WindowKeyboardInput"} /\ event.key = "Escape"

ExitFlagStep ==
    prog \in PollProgs =>
        /\ (exit' # exit =>
                /\ exit'
                /\ pc = "poll"
                /\ batchCount' = batchCount + 1
                /\ ClosingEvent(lastEvent'))
        /\ (exit => exit')
        /\ (exit =>
                /\ drawCalls' = drawCalls
                /\ presentCalls' = presentCalls
                /\ frames' = frames
                /\ pc' \in {"poll", "loop", "teardown", "done", "panicked"}
                /\ (pc' = "panicked" => failedCall' = "destroy_context")
                /\ (pc = "loop" => pc' = "teardown"))

C20_ExitFlagSetOnlyByClose == [][ExitFlagStep]_vars

C20_Witness ==
    /\ prog \in PollProgs
    /\ exit
    /\ pc = "poll"
    /\ batchCount = 2
    /\ ~ClosingEvent(lastEvent)
    /\ lastEvent.kind = "WindowResized"

\* C21 as stated: every run of with_window that has ended has drawn at least
\* one frame, and its draw calls are as many as its poll batches.
Ended == pc \in {"done", "exited", "panicked"}

C21_EveryRunDrawsAFrame ==
    (prog \in Scenes /\ Ended) => (drawCalls >= 1 /\ drawCalls = pollCalls)

\* C21, amended: with_window polls no event before it has drawn and presented
\* a frame, so a run whose set-up and init succeeded has drawn a frame by the
\* time any event, a close signal included, is handled; each iteration draws,
\* presents and polls once, and a run that has ended has as many draw calls
\* as poll batches, at least one if it entered the loop, except that a run
\* ended by a failing unbind, present or bind has drawn one frame more than
\* it has polled batches.
HandOver ==
    {"unbind_surface_from_context", "present_surface", "bind_surface_to_context"}

C21_DrawAndPresentBeforePoll ==
    prog \in Scenes =>
        /\ pollCalls <= presentCalls
        /\ presentCalls <= drawCalls
        /\ drawCalls <= pollCalls + 1
        /\ (pollCalls > 0 => drawCalls >= 1 /\ presentCalls >= 1)
        /\ (lastEvent # NoEvent => drawCalls >= 1 /\ presentCalls >= 1)
        /\ (exit => drawCalls >= 1)
        /\ (pc \in {"done", "exited"} => drawCalls = pollCalls)
        /\ (pc = "panicked" =>
                drawCalls = pollCalls + (IF failedCall \in HandOver THEN 1 ELSE 0))
        /\ ((Ended /\ initReturned) => drawCalls >= 1)
        /\ (~initReturned => drawCalls = 0 /\ pollCalls = 0)

C21_Witness ==
    /\ prog \in Scenes
    /\ pc = "done"
    /\ frames = 1
    /\ drawCalls = 1
    /\ presentCalls = 1
    /\ pollCalls = 1
    /\ batchCount = 1
    /\ lastEvent.kind = "WindowCloseRequested"

\* C22: in the poll loops the window surface is bound to its context
\* whenever GL commands of init or of a frame run and when the frame's unbind
\* is reached; it is unbound only between that unbind and the bind that
\* follows the present, and no unbind finds its context without a surface.
C22_SurfaceBoundDuringFrame ==
    prog \in PollProgs =>
        /\ (pc \in {"ready", "init", "loop", "draw", "unbind", "pollbegin", "poll",
                    "teardown", "done"} =>
                surfaceBound = {SurfaceCtx(prog)})
        /\ (pc \in {"present", "rebind"} => surfaceBound = {})
        /\ failedCall # "unbind_found_no_surface"

C22_Witness ==
    /\ prog = "framebuffers_02"
    /\ frames = 2
    /\ presentCalls = 1
    /\ pc = "unbind"
    /\ surfaceBound = {"surface_context"}

\* C23: after n completed frames 06_framebuffers_01 has 2n framebuffer
\* objects and n renderbuffer objects alive; 06_framebuffers_02 has deleted
\* both framebuffers of a frame by the time the frame's surface is handed
\* over for the present and has n renderbuffer objects alive.
Alive(kind) == {o \in objects : o.kind = kind}

FrameCompleted ==
    pc \in {"unbind", "present", "rebind", "pollbegin", "poll", "loop", "teardown",
           "done"}

C23_ObjectsAlive ==
    /\ ((prog = "framebuffers_01" /\ FrameCompleted) =>
            /\ Cardinality(Alive("framebuffer")) = 2 * drawCalls
            /\ Cardinality(Alive("renderbuffer")) = drawCalls)
    /\ ((prog = "framebuffers_02" /\ FrameCompleted) =>
            /\ Cardinality(Alive("framebuffer")) = 0
            /\ Cardinality(Alive("renderbuffer")) = drawCalls)

\* C24: in every scene the attributes declared by init tile the vertex
\* record: they are attributes 0..k of floats, the offset of each is the
\* size of those before it, their sizes add up to the stride each of them
\* declares (3 floats in hello_triangle and shaders_01; 9 floats with offsets
\* 0, 3 and 7 floats in 05_textures_01), and the vertex array is a whole
\* number of such records.
RECURSIVE FloatsBefore(_, _)
FloatsBefore(attribs, k) ==
    IF k = 0 THEN 0 ELSE attribs[k - 1].size + FloatsBefore(attribs, k - 1)

StrideFloats(p) == IF p = "textures_01" THEN 9 ELSE 3

C24_LayoutTilesRecord ==
    (prog \in Scenes /\ initReturned) =>
        LET attribs == gl.attribs
            n == Cardinality(DOMAIN attribs)
        IN  /\ n >= 1
            /\ DOMAIN attribs = 0..(n - 1)
            /\ \A k \in DOMAIN attribs :
                  /\ attribs[k].type = "FLOAT"
                  /\ attribs[k].size >= 1
                  /\ attribs[k].offset = FloatsBefore(attribs, k) * SizeOfF32
                  /\ attribs[k].stride = FloatsBefore(attribs, n) * SizeOfF32
            /\ FloatsBefore(attribs, n) = StrideFloats(prog)
            /\ (prog = "textures_01" =>
                    /\ n = 3
                    /\ attribs[0].offset = 0
                    /\ attribs[1].offset = 3 * SizeOfF32
                    /\ attribs[2].offset = 7 * SizeOfF32)
            /\ gl.vbo.arrayFloats > 0
            /\ gl.vbo.arrayFloats % FloatsBefore(attribs, n) = 0
            /\ gl.vbo.floats % FloatsBefore(attribs, n) = 0

C24_Witness ==
    /\ prog = "textures_01"
    /\ initReturned
    /\ pc = "loop"
    /\ DOMAIN gl.attribs = 0..2
    /\ gl.attribs[2].offset = 28
    /\ gl.vbo.arrayFloats = 36
    /\ gl.vbo.bytes = 576

=============================================================================
